---------------------------- MODULE Spec2Model ----------------------------
(***************************************************************************)
(* Model of react-gamepad-hooks (src/src/index.ts): the per-frame polling  *)
(* loop of useGamepadJoystick, with the consumer that receives its         *)
(* callbacks (src/sample/src/GameJoystickControls.tsx), the effect that    *)
(* starts the loop, and the device registry of useGamepadManager.          *)
(*                                                                         *)
(* Numbers.  Axis and button readings are JavaScript doubles; the model    *)
(* keeps them as integers in hundredths (0.1 is 10, 0.01 is 1, 0.5 is 50). *)
(* Times are integer milliseconds.  The interval 1000 / joystickRateHz is  *)
(* not an integer, so the comparison  elapsed >= 1000 / rateHz  is kept    *)
(* exact as  elapsed * rateHz >= 1000.                                     *)
(***************************************************************************)
EXTENDS Integers, Sequences, FiniteSets, TLC

VARIABLES
    cfg,             \* the props of useGamepadJoystick, defaults applied
    now,             \* host clock (performance.now()) at the latest step
    lastEmitTime,    \* lastEmitTimeRef.current
    lastNonNeutral,  \* lastNonNeutralRef.current : side -> BOOLEAN
    prevAxes,        \* prevAxesRef.current : side -> [dx, dy]
    prevButtons,     \* prevButtonsRef.current : partial map name -> value
    frame,           \* locals of the latest run of poll
    calls,           \* callbacks invoked by the latest run of poll, in order
    seen,            \* the consumer: what the callbacks have delivered so far
    trace,           \* when kept: the processed frames since mount, in order
    pending,         \* the props captured by each poll closure that has an
                     \* animation-frame callback requested, oldest first
    mounted,         \* whether the component using the hook is mounted
    api,             \* whether the host has navigator.getGamepads
    pads,            \* the host's device array at the latest step
    gamepads,        \* useGamepadManager's state, queued updates applied
    view,            \* the gamepads list of the latest render
    manager,         \* useGamepadManager's component and effect: whether it
                     \* is mounted, has its listeners, has its interval
    op               \* the operation the latest step performed

vars == <<cfg, now, lastEmitTime, lastNonNeutral, prevAxes, prevButtons,
          frame, calls, seen, trace, pending, mounted,
          api, pads, gamepads, view, manager, op>>

-----------------------------------------------------------------------------
(* Constants of the program *)

JOYSTICK_EMIT_ALWAYS == "JoystickEmitAlways"
JOYSTICK_EMIT_ON_CHANGE == "JoystickEmitOnChange"

STANDARD_BUTTONS ==
    << "Face1", "Face2", "Face3", "Face4",
       "LeftBumper", "RightBumper", "LeftTrigger", "RightTrigger",
       "Share", "Options", "LeftStick", "RightStick",
       "DPadUp", "DPadDown", "DPadLeft", "DPadRight",
       "Home" >>

Sides == <<"left", "right">>

\* Defaults of the props (hundredths for the three thresholds).
DefaultRateHz == 30
DefaultDeadzone == 10
DefaultTriggerThreshold == 10
DefaultTriggerEpsilon == 1

\* The two raw button indices treated as analog triggers.
TriggerIndexA == 6
TriggerIndexB == 7

-----------------------------------------------------------------------------
(* Bounds of the model *)

\* The host clock is not advanced beyond MaxTime ms.
MaxTime == 80
\* The host clock of the rate measurement runs up to RateWindow ms.
RateWindow == 300
\* Number of buttons the modelled device reports.
NumButtons == 8
\* Number of processed frames of a traced run.
MaxFrames == 5
\* Number of poll closures with a requested frame, when props change.
MaxLoops == 2

-----------------------------------------------------------------------------
(* Helpers *)

Abs(x) == IF x < 0 THEN -x ELSE x

\* STANDARD_BUTTONS[i] ?? `Button${i}`   (i is the 0-based raw index)
ButtonName(i) ==
    IF i < Len(STANDARD_BUTTONS) THEN STANDARD_BUTTONS[i + 1]
    ELSE "Button" \o ToString(i)

\* prevButtonsRef.current[name] ?? 0
PrevValue(prev, name) ==
    IF name \in DOMAIN prev THEN prev[name] ELSE 0


-----------------------------------------------------------------------------
(* The raw snapshot *)

\* An empty slot of the array navigator.getGamepads() returns.
NoPad == [connected |-> FALSE, axes |-> <<>>, buttons |-> <<>>]

\* A device record: four axis readings and one value per button.
Pad(axes, buttons) == [connected |-> TRUE, axes |-> axes, buttons |-> buttons]

\* gps[id] that falls back on slot 0 for an index outside the array.
PadAtFirst(gps, id) ==
    IF id \in DOMAIN gps THEN gps[id]
    ELSE IF 0 \in DOMAIN gps THEN gps[0] ELSE NoPad

\* gps[id]: undefined for an index outside the array, null for an empty slot
PadAt(gps, id) ==
    IF id \in DOMAIN gps THEN gps[id] ELSE NoPad

\* if (!gp)
Absent(gp) == gp = NoPad

\* navigator.getGamepads() called whether the host has it or not.
GetGamepadsAlways(has, devices) == devices

\* navigator.getGamepads ? navigator.getGamepads() : []
GetGamepads(has, devices) == IF has THEN devices ELSE << >>

\* null, and a slot number that is not null
Null == << >>
Slot(i) == << i >>

\* The operation a step performs, with its arguments and its result.
Op(name, index, busy, result) ==
    [name |-> name, index |-> index, busy |-> busy, result |-> result]

-----------------------------------------------------------------------------
(* poll: the axes *)

\* A deadzone that lets a reading exactly at the deadzone through.
DeadzoneXAtEdge(v, deadzone) == IF Abs(v) >= deadzone THEN v ELSE 0

\* Math.abs(gp.axes[0]) > deadzone ? gp.axes[0] : 0
DeadzoneX(v, deadzone) == IF Abs(v) > deadzone THEN v ELSE 0

\* Math.abs(gp.axes[1]) > deadzone ? -gp.axes[1] : 0
DeadzoneY(v, deadzone) == IF Abs(v) > deadzone THEN -v ELSE 0

\* axesRaw: axes 0,1 are the left pair, axes 2,3 the right pair
AxesRaw(gp, deadzone) ==
    [ left  |-> [dx |-> DeadzoneX(gp.axes[1], deadzone),
                 dy |-> DeadzoneY(gp.axes[2], deadzone)],
      right |-> [dx |-> DeadzoneX(gp.axes[3], deadzone),
                 dy |-> DeadzoneY(gp.axes[4], deadzone)] ]

\* A strict rate gate.
ShouldEmitStrict(t, last, rateHz) == (t - last) * rateHz > 1000

\* now - lastEmitTimeRef.current >= intervalMs, intervalMs = 1000 / rateHz
ShouldEmit(t, last, rateHz) == (t - last) * rateHz >= 1000

MoveCall(side, dx, dy) ==
    [ cb |-> IF side = "left" THEN "onLeftJoystickMove"
             ELSE "onRightJoystickMove",
      dx |-> dx, dy |-> dy ]

\* side === "left" ? onLeftJoystickMove : onRightJoystickMove  (supplied?)
MoveCallback(side, c) ==
    IF side = "left" THEN c.onLeftJoystickMove ELSE c.onRightJoystickMove

IsNeutral(next) == next.dx = 0 /\ next.dy = 0

\* A change test that looks at dx only.
ChangedDx(next, prev) == next.dx # prev.dx

\* next.dx !== prev[side].dx || next.dy !== prev[side].dy
Changed(next, prev) == next.dx # prev.dx \/ next.dy # prev.dy

\* EmitAlways without the rate gate.
EmitAlwaysCallsUngated(side, next, shouldEmit, c) ==
    IF MoveCallback(side, c)
    THEN << MoveCall(side, next.dx, next.dy) >>
    ELSE << >>

\* The JOYSTICK_EMIT_ALWAYS branch of the forEach body.
EmitAlwaysCalls(side, next, shouldEmit, c) ==
    IF MoveCallback(side, c) /\ shouldEmit
    THEN << MoveCall(side, next.dx, next.dy) >>
    ELSE << >>

\* EmitOnChange with the release notification rate-gated like the rest.
EmitOnChangeCallsGatedRelease(side, next, prev, wasNonNeutral, shouldEmit, c) ==
    IF MoveCallback(side, c) /\ (wasNonNeutral \/ ~IsNeutral(next)) /\ shouldEmit
    THEN << MoveCall(side, next.dx, next.dy) >>
    ELSE << >>

\* EmitOnChange that reports a neutral stick in every frame it is read.
EmitOnChangeCallsEveryNeutral(side, next, prev, wasNonNeutral, shouldEmit, c) ==
    IF IsNeutral(next)
    THEN IF MoveCallback(side, c)
         THEN << MoveCall(side, 0, 0) >>
         ELSE << >>
    ELSE IF MoveCallback(side, c) /\ (Changed(next, prev) \/ shouldEmit)
         THEN << MoveCall(side, next.dx, next.dy) >>
         ELSE << >>

\* The JOYSTICK_EMIT_ON_CHANGE branch of the forEach body.
EmitOnChangeCalls(side, next, prev, wasNonNeutral, shouldEmit, c) ==
    IF IsNeutral(next)
    THEN IF wasNonNeutral /\ MoveCallback(side, c)
         THEN << MoveCall(side, 0, 0) >>
         ELSE << >>
    ELSE IF MoveCallback(side, c) /\ (Changed(next, prev) \/ shouldEmit)
         THEN << MoveCall(side, next.dx, next.dy) >>
         ELSE << >>

\* The callbacks one side invokes in one frame.
SideCalls(side, next, prev, wasNonNeutral, shouldEmit, c) ==
    IF c.joystickEmitMode = JOYSTICK_EMIT_ALWAYS
    THEN EmitAlwaysCalls(side, next, shouldEmit, c)
    ELSE EmitOnChangeCalls(side, next, prev, wasNonNeutral, shouldEmit, c)

\* (["left", "right"]).forEach(...): the state of the loop is the two refs
\* and the callbacks invoked so far.
AxesStep(st, side, axesRaw, shouldEmit, c) ==
    LET next == axesRaw[side] IN
    [ prevAxes       |-> [st.prevAxes EXCEPT ![side] = next],
      lastNonNeutral |-> [st.lastNonNeutral EXCEPT ![side] = ~IsNeutral(next)],
      calls          |-> st.calls \o SideCalls(side, next, st.prevAxes[side],
                                               st.lastNonNeutral[side],
                                               shouldEmit, c) ]

RECURSIVE AxesLoop(_, _, _, _, _)
AxesLoop(st, k, axesRaw, shouldEmit, c) ==
    IF k > Len(Sides) THEN st
    ELSE AxesLoop(AxesStep(st, Sides[k], axesRaw, shouldEmit, c),
                  k + 1, axesRaw, shouldEmit, c)

-----------------------------------------------------------------------------
(* poll: the buttons *)

\* i === 6 || i === 7
IsTrigger(i) == i = TriggerIndexA \/ i = TriggerIndexB

\* A non-strict threshold test.
PressedAtThreshold(value, triggerThreshold) == value >= triggerThreshold

\* value > triggerThreshold
Pressed(value, triggerThreshold) == value > triggerThreshold

\* A non-strict epsilon test.
AnalogChangedAtEpsilon(value, prevValue, triggerEpsilon) ==
    Abs(value - prevValue) >= triggerEpsilon

\* Math.abs(value - prevValue) > triggerEpsilon
AnalogChanged(value, prevValue, triggerEpsilon) ==
    Abs(value - prevValue) > triggerEpsilon

BinaryCall(name, pressed) ==
    [cb |-> "onButtonBinary", name |-> name, pressed |-> pressed]

AnalogCall(name, value) ==
    [cb |-> "onButtonAnalog", name |-> name, value |-> value]

\* Level-triggered reporting: the pressed state of every frame.
BinaryCallsByLevel(name, value, prevValue, c) ==
    IF c.onButtonBinary
    THEN << [cb |-> "onButtonBinary", name |-> name,
             pressed |-> value > c.triggerThreshold] >>
    ELSE << >>

\* The two edge tests of the forEach body: onButtonBinary?.(name, ...)
BinaryCalls(name, value, prevValue, c) ==
    LET pressed     == Pressed(value, c.triggerThreshold)
        prevPressed == Pressed(prevValue, c.triggerThreshold)
    IN  (IF ~prevPressed /\ pressed /\ c.onButtonBinary
         THEN << BinaryCall(name, TRUE) >> ELSE << >>)
        \o
        (IF prevPressed /\ ~pressed /\ c.onButtonBinary
         THEN << BinaryCall(name, FALSE) >> ELSE << >>)

\* An analog event only while the channel is or was pressed.
AnalogCallsWhilePressed(i, name, value, prevValue, c) ==
    IF IsTrigger(i) /\ AnalogChanged(value, prevValue, c.triggerEpsilon)
       /\ (value > c.triggerThreshold \/ prevValue > c.triggerThreshold)
       /\ c.onButtonAnalog
    THEN << AnalogCall(name, value) >>
    ELSE << >>

\* if (isTrigger && |value - prevValue| > triggerEpsilon) onButtonAnalog?.(..)
AnalogCalls(i, name, value, prevValue, c) ==
    IF IsTrigger(i) /\ AnalogChanged(value, prevValue, c.triggerEpsilon)
       /\ c.onButtonAnalog
    THEN << AnalogCall(name, value) >>
    ELSE << >>

\* The iteration that reports the analog value before the binary edge.
ButtonStepAnalogFirst(st, i, value, c) ==
    LET name      == ButtonName(i)
        prevValue == PrevValue(st.prevButtons, name)
    IN  [ prevButtons |-> (name :> value) @@ st.prevButtons,
          calls       |-> st.calls \o AnalogCalls(i, name, value, prevValue, c)
                                   \o BinaryCalls(name, value, prevValue, c) ]

\* One iteration of gp.buttons.forEach((btn, i) => ...).
ButtonStep(st, i, value, c) ==
    LET name      == ButtonName(i)
        prevValue == PrevValue(st.prevButtons, name)
    IN  [ prevButtons |-> (name :> value) @@ st.prevButtons,
          calls       |-> st.calls \o BinaryCalls(name, value, prevValue, c)
                                   \o AnalogCalls(i, name, value, prevValue, c) ]

RECURSIVE ButtonsLoop(_, _, _, _)
ButtonsLoop(st, i, buttons, c) ==
    IF i >= Len(buttons) THEN st
    ELSE ButtonsLoop(ButtonStep(st, i, buttons[i + 1], c), i + 1, buttons, c)

-----------------------------------------------------------------------------
(* The consumer of the callbacks *)

\* State of the consuming component before any callback: left and right at
\* (0,0), no button recorded, no callback timed or counted.
SeenInit(metered) ==
    [ left    |-> [dx |-> 0, dy |-> 0],
      right   |-> [dx |-> 0, dy |-> 0],
      binary  |-> << >>,
      analog  |-> << >>,
      moveAt  |-> [left |-> -1, right |-> -1],
      metered |-> metered,
      J1      |-> 0 ]

\* The consumer's four callbacks: each records what it is handed; the
\* left-move callback also triggers the frequency meter.
Deliver(s, call, t) ==
    CASE call.cb = "onLeftJoystickMove" ->
           [s EXCEPT !.left = [dx |-> call.dx, dy |-> call.dy],
                     !.moveAt.left = t,
                     !.J1 = IF s.metered THEN @ + 1 ELSE @]
      [] call.cb = "onRightJoystickMove" ->
           [s EXCEPT !.right = [dx |-> call.dx, dy |-> call.dy],
                     !.moveAt.right = t]
      [] call.cb = "onButtonBinary" ->
           [s EXCEPT !.binary = (call.name :> call.pressed) @@ @]
      [] call.cb = "onButtonAnalog" ->
           [s EXCEPT !.analog = (call.name :> call.value) @@ @]

RECURSIVE DeliverAll(_, _, _, _)
DeliverAll(s, cs, k, t) ==
    IF k > Len(cs) THEN s
    ELSE DeliverAll(Deliver(s, cs[k], t), cs, k + 1, t)

-----------------------------------------------------------------------------
(* The hook *)

\* The props with their defaults; a callback prop is TRUE when supplied.
Props(id, rateHz, mode, deadzone, threshold, epsilon, onL, onR, onB, onA) ==
    [ id                  |-> id,
      joystickRateHz      |-> rateHz,
      joystickEmitMode    |-> mode,
      deadzone            |-> deadzone,
      triggerThreshold    |-> threshold,
      triggerEpsilon      |-> epsilon,
      onLeftJoystickMove  |-> onL,
      onRightJoystickMove |-> onR,
      onButtonBinary      |-> onB,
      onButtonAnalog      |-> onA ]

\* The refs as useRef creates them, and the effect's first statements:
\* lastEmitTimeRef.current = performance.now(); requestAnimationFrame(poll).
Mount(c, t, metered, traced) ==
    /\ cfg = c
    /\ pending = << c >>
    /\ mounted = TRUE
    /\ now = t
    /\ lastEmitTime = t
    /\ lastNonNeutral = [left |-> FALSE, right |-> FALSE]
    /\ prevAxes = [left  |-> [dx |-> 0, dy |-> 0],
                   right |-> [dx |-> 0, dy |-> 0]]
    /\ prevButtons = << >>
    /\ frame = [processed |-> FALSE, shouldEmit |-> FALSE, gp |-> NoPad]
    /\ calls = << >>
    /\ seen = SeenInit(metered)
    /\ trace = [on |-> traced, frames |-> << >>]

\* The record of the processed frames: what the device read and which
\* callbacks the frame invoked.
Traced(tr, gp, cs) ==
    IF tr.on
    THEN [tr EXCEPT !.frames = Append(@, [gp |-> gp, calls |-> cs])]
    ELSE tr

\* lastEmitTimeRef.current = now in every processed frame.
NextEmitTimeAlways(shouldEmit, t, last) == t

\* if (shouldEmit) lastEmitTimeRef.current = now
NextEmitTime(shouldEmit, t, last) == IF shouldEmit THEN t ELSE last

\* The body of poll for a device that is present: the refs as it leaves
\* them, the callbacks it invokes, and its local shouldEmit.
PollBody(gp, t, c, last, nonNeutral, axes, buttons) ==
    LET shouldEmit == ShouldEmit(t, last, c.joystickRateHz)
        a == AxesLoop([prevAxes |-> axes, lastNonNeutral |-> nonNeutral,
                       calls |-> << >>],
                      1, AxesRaw(gp, c.deadzone), shouldEmit, c)
        b == ButtonsLoop([prevButtons |-> buttons, calls |-> a.calls],
                         0, gp.buttons, c)
    IN  [ prevAxes       |-> a.prevAxes,
          lastNonNeutral |-> a.lastNonNeutral,
          prevButtons    |-> b.prevButtons,
          lastEmitTime   |-> NextEmitTime(shouldEmit, t, last),
          calls          |-> b.calls,
          shouldEmit     |-> shouldEmit ]

\* One run of poll, in the animation frame at host time t, when the host's
\* device array is gps: the oldest requested callback runs with the props
\* its closure captured, and requests its next frame.
Poll(gps, t) ==
    /\ pending # << >>
    /\ LET c  == Head(pending)
           gp == PadAt(GetGamepads(api, gps), c.id)
       IN
       /\ now' = t
       /\ pads' = gps
       /\ op' = Op("poll", Null, FALSE, Null)
       /\ pending' = Append(Tail(pending), c)
       /\ UNCHANGED <<cfg, mounted, api, manager, gamepads, view>>
       /\ IF Absent(gp)
          THEN /\ frame' = [processed |-> FALSE, shouldEmit |-> FALSE,
                            gp |-> NoPad]
               /\ calls' = << >>
               /\ UNCHANGED <<lastEmitTime, lastNonNeutral, prevAxes,
                              prevButtons, seen, trace>>
          ELSE \E r \in { PollBody(gp, t, c, lastEmitTime, lastNonNeutral,
                                   prevAxes, prevButtons) } :
                   /\ prevAxes' = r.prevAxes
                   /\ lastNonNeutral' = r.lastNonNeutral
                   /\ prevButtons' = r.prevButtons
                   /\ lastEmitTime' = r.lastEmitTime
                   /\ calls' = r.calls
                   /\ seen' = DeliverAll(seen, r.calls, 1, t)
                   /\ frame' = [processed |-> TRUE,
                                shouldEmit |-> r.shouldEmit, gp |-> gp]
                   /\ trace' = Traced(trace, gp, r.calls)

\* The effect runs again after a render whose props differ in one of its
\* dependencies (a new callback identity included): it computes intervalMs
\* from the new props, resets lastEmitTimeRef and requests a frame for a new
\* poll closure.  The effect returns no cleanup function, so the frame the
\* previous closure requested stays requested, and the refs keep their
\* values.
Reconfigure(c) ==
    /\ mounted
    /\ cfg' = c
    /\ pending' = Append(pending, c)
    /\ lastEmitTime' = now
    /\ op' = Op("effect", Null, FALSE, Null)
    /\ UNCHANGED <<now, lastNonNeutral, prevAxes, prevButtons, frame, calls,
                   seen, trace, mounted, api, pads, gamepads, view,
                   manager>>

\* The component unmounts: React runs the cleanup of the effect, and the
\* effect has none.
Unmount ==
    /\ mounted
    /\ mounted' = FALSE
    /\ op' = Op("unmount", Null, FALSE, Null)
    /\ UNCHANGED <<cfg, now, lastEmitTime, lastNonNeutral, prevAxes,
                   prevButtons, frame, calls, seen, trace, pending,
                   api, pads, gamepads, view, manager>>

-----------------------------------------------------------------------------
(* The host: frame times and device readings *)

\* Time between two animation frames, in ms.
FramePeriods == {20, 40}

\* The array getGamepads() returns with the device in slot 0, and with
\* slot 0 empty.
Snapshot(gp) == [i \in {0} |-> gp]

ZeroAxes == <<0, 0, 0, 0>>

\* Button readings: v0 for Face1, v6 for LeftTrigger, v7 for RightTrigger,
\* 0 for every other button.
Buttons(v0, v6, v7) ==
    [ i \in 1..NumButtons |->
        CASE i - 1 = 0 -> v0
          [] i - 1 = TriggerIndexA -> v6
          [] i - 1 = TriggerIndexB -> v7
          [] OTHER -> 0 ]

ZeroButtons == Buttons(0, 0, 0)

\* A frame in which the configured slot holds no device.
PollAbsent ==
    \E dt \in FramePeriods :
        /\ now + dt <= MaxTime
        /\ Poll(Snapshot(NoPad), now + dt)

-----------------------------------------------------------------------------
(* useGamepadManager: the registry of devices *)

hookVars == <<cfg, now, lastEmitTime, lastNonNeutral, prevAxes, prevButtons,
              frame, calls, seen, trace, pending, mounted>>

\* A Gamepad object of the host, in slot index of the device array.
Device(index, connected, axes, buttons) ==
    [ connected |-> connected, axes |-> axes, buttons |-> buttons,
      index |-> index, id |-> "pad" \o ToString(index),
      mapping |-> "standard" ]

\* gps.length, for an array indexed from 0
Length(gps) == Cardinality(DOMAIN gps)

Least(S) == CHOOSE x \in S : \A y \in S : x <= y

\* (gp as any).batteryLevel ?? null
Battery(gp) ==
    IF "batteryLevel" \in DOMAIN gp THEN gp.batteryLevel ELSE Null

\* gamepads.find(g => g.index === gp.index)?.busy ?? false
BusyOf(known, index) ==
    LET hits == { k \in 1..Len(known) : known[k].index = index }
    IN  IF hits = {} THEN FALSE ELSE known[Least(hits)].busy

\* The descriptor that reports every listed device as connected.
GpInfoConnected(gp, known) ==
    [ connected |-> TRUE,
      id        |-> gp.id,
      index     |-> gp.index,
      mapping   |-> gp.mapping,
      axes      |-> Len(gp.axes),
      buttons   |-> Len(gp.buttons),
      battery   |-> Battery(gp),
      busy      |-> BusyOf(known, gp.index) ]

\* The descriptor pushed for a device.
GpInfo(gp, known) ==
    [ connected |-> gp.connected,
      id        |-> gp.id,
      index     |-> gp.index,
      mapping   |-> gp.mapping,
      axes      |-> Len(gp.axes),
      buttons   |-> Len(gp.buttons),
      battery   |-> Battery(gp),
      busy      |-> BusyOf(known, gp.index) ]

\* for (const gp of gps) { if (!gp) continue; gpInfos.push(...) }, from
\* position k of the array on.
RECURSIVE GpInfos(_, _, _)
GpInfos(gps, k, known) ==
    IF k >= Length(gps) THEN << >>
    ELSE (IF Absent(gps[k]) THEN << >> ELSE << GpInfo(gps[k], known) >>)
           \o GpInfos(gps, k + 1, known)

\* updateGamepads that lists only the devices of slots already known.
UpdateGamepadsKnownOnly(gps, known) ==
    LET all == GpInfos(gps, 0, known)
        Is(g) == \E k \in 1..Len(known) : known[k].index = g.index
    IN  SelectSeq(all, Is)

\* The list updateGamepads hands to setGamepads, when its closure's
\* gamepads is known.
UpdateGamepads(gps, known) == GpInfos(gps, 0, known)

\* useState([]): the gamepads of the first render.  The effect has an empty
\* dependency list, so the updateGamepads it calls, registers as listener
\* and hands to setInterval is the first render's, whose gamepads is this
\* list.
FirstRender == << >>

\* nextAvailable that takes slot 0 for no slot.
NextAvailableFalsy(list) ==
    LET hits == { k \in 1..Len(list) : list[k].connected /\ ~list[k].busy }
    IN  IF hits = {} \/ list[Least(hits)].index = 0 THEN Null
        ELSE Slot(list[Least(hits)].index)

\* gamepads.find(g => g.connected && !g.busy); gp ? gp.index ?? null : null
NextAvailable(list) ==
    LET hits == { k \in 1..Len(list) : list[k].connected /\ ~list[k].busy }
    IN  IF hits = {} THEN Null ELSE Slot(list[Least(hits)].index)

\* markBusy that takes index for a position of the list.
MarkBusyAtPosition(gps, index, busy) ==
    [ k \in 1..Len(gps) |->
        IF k - 1 = index THEN [gps[k] EXCEPT !.busy = busy] ELSE gps[k] ]

\* gps.map(gp => gp.index === index ? { ...gp, busy } : gp)
MarkBusy(gps, index, busy) ==
    [ k \in 1..Len(gps) |->
        IF gps[k].index = index THEN [gps[k] EXCEPT !.busy = busy]
        ELSE gps[k] ]

\* setGamepads: React applies the update while the component is mounted
\* and drops it afterwards.
SetGamepads(m, old, new) == IF m.mounted THEN new ELSE old

\* The cleanup that leaves the interval running.
CleanupListenersOnly(m) ==
    [mounted |-> FALSE, listeners |-> FALSE, interval |-> m.interval]

\* The cleanup of the effect, run when the component unmounts:
\* removeEventListener twice and clearInterval(poll).
Cleanup(m) == [mounted |-> FALSE, listeners |-> FALSE, interval |-> FALSE]

\* The state after the first render and the effect's updateGamepads().
ManagerMount(has, gps) ==
    /\ api = has
    /\ pads = gps
    /\ gamepads = UpdateGamepads(GetGamepads(has, gps), FirstRender)
    /\ view = FirstRender
    /\ manager = [mounted |-> TRUE, listeners |-> TRUE, interval |-> TRUE]
    /\ op = Op("mount", Null, FALSE, Null)

\* The host connects, disconnects or replaces devices.
HostChange(gps) ==
    /\ pads' = gps
    /\ op' = Op("host", Null, FALSE, Null)
    /\ UNCHANGED <<api, manager, gamepads, view>>
    /\ UNCHANGED hookVars

\* handle: the listener of gamepadconnected and gamepaddisconnected.
OnGamepadEvent ==
    /\ manager.listeners
    /\ gamepads' = SetGamepads(manager, gamepads,
                     UpdateGamepads(GetGamepads(api, pads), FirstRender))
    /\ op' = Op("handle", Null, FALSE, Null)
    /\ UNCHANGED <<api, manager, pads, view>>
    /\ UNCHANGED hookVars

\* setInterval(updateGamepads, 1000) fires.
IntervalTick ==
    /\ manager.interval
    /\ gamepads' = SetGamepads(manager, gamepads,
                     UpdateGamepads(GetGamepads(api, pads), FirstRender))
    /\ op' = Op("interval", Null, FALSE, Null)
    /\ UNCHANGED <<api, manager, pads, view>>
    /\ UNCHANGED hookVars

\* React renders the component: the hook returns the state, and the
\* nextAvailable of this render reads it.
Render ==
    /\ manager.mounted
    /\ view' = gamepads
    /\ op' = Op("render", Null, FALSE, Null)
    /\ UNCHANGED <<api, manager, pads, gamepads>>
    /\ UNCHANGED hookVars

\* The caller calls the nextAvailable of the latest render.
CallNextAvailable ==
    /\ op' = Op("nextAvailable", Null, FALSE, NextAvailable(view))
    /\ UNCHANGED <<api, manager, pads, gamepads, view>>
    /\ UNCHANGED hookVars

\* The caller calls markBusy: setGamepads queues the update.
CallMarkBusy(index, busy) ==
    /\ gamepads' = SetGamepads(manager, gamepads,
                     MarkBusy(gamepads, index, busy))
    /\ op' = Op("markBusy", index, busy, Null)
    /\ UNCHANGED <<api, manager, pads, view>>
    /\ UNCHANGED hookVars

\* The component that uses useGamepadManager unmounts: React runs the
\* cleanup of its effect.
ManagerUnmount ==
    /\ manager.mounted
    /\ manager' = Cleanup(manager)
    /\ op' = Op("managerUnmount", Null, FALSE, Null)
    /\ UNCHANGED <<api, pads, gamepads, view>>
    /\ UNCHANGED hookVars

-----------------------------------------------------------------------------
(* Specification of the button channels: a device whose sticks rest and    *)
(* whose buttons take any of the readings below in any frame.              *)

DigitalReadings == {0, 10, 11}
TriggerReadings == {0, 10, 11, 30}
OtherReadings == {0, 30}

ButtonConfigs ==
    { Props(0, DefaultRateHz, JOYSTICK_EMIT_ON_CHANGE, DefaultDeadzone,
            DefaultTriggerThreshold, DefaultTriggerEpsilon, TRUE, TRUE,
            on[1], on[2]) :
        on \in {<<TRUE, TRUE>>, <<TRUE, FALSE>>, <<FALSE, TRUE>>} }

InitButtons ==
    /\ \E c \in ButtonConfigs : Mount(c, 0, FALSE, FALSE)
    /\ ManagerMount(TRUE, Snapshot(NoPad))

PollButtons ==
    \E dt \in FramePeriods, v0 \in DigitalReadings, v6 \in TriggerReadings,
       o \in OtherReadings :
        /\ now + dt <= MaxTime
        /\ Poll(Snapshot(Pad(ZeroAxes, Buttons(v0, v6, o))), now + dt)

NextButtons == PollButtons \/ PollAbsent

SpecButtons == InitButtons /\ [][NextButtons]_vars

-----------------------------------------------------------------------------
(* Specification of one trigger over a few frames: the left trigger takes  *)
(* any of the readings below in each frame, everything else rests, and the *)
(* processed frames are recorded.                                          *)

ScenarioTriggerReadings == {0, 5, 15, 30}

TriggerConfig ==
    Props(0, DefaultRateHz, JOYSTICK_EMIT_ON_CHANGE, DefaultDeadzone,
          DefaultTriggerThreshold, DefaultTriggerEpsilon,
          TRUE, TRUE, TRUE, TRUE)

InitTrigger ==
    /\ Mount(TriggerConfig, 0, FALSE, TRUE)
    /\ ManagerMount(TRUE, Snapshot(NoPad))

PollTrigger ==
    \E dt \in FramePeriods, v6 \in ScenarioTriggerReadings :
        /\ Len(trace.frames) < MaxFrames
        /\ Poll(Snapshot(Pad(ZeroAxes, Buttons(0, v6, 0))), now + dt)

NextTrigger == PollTrigger

SpecTrigger == InitTrigger /\ [][NextTrigger]_vars

-----------------------------------------------------------------------------
(* Specification of the sticks: a device whose buttons rest and whose two  *)
(* sticks take any of the readings below in any frame.                     *)

\* Raw (x, y) readings of the left stick (axes 0, 1): at rest, exactly at
\* the default deadzone, just outside it, and out of the nominal range.
LeftReadings == { <<0, 0>>, <<10, -10>>, <<11, 0>>, <<-150, 50>> }

\* Raw (x, y) readings of the right stick (axes 2, 3).
RightReadings == { <<0, 0>>, <<0, -50>>, <<50, 11>> }

\* Deadzones: the default, and one that the reading 50 meets exactly.
Deadzones == {DefaultDeadzone, 50}

\* Rates: the default, and one whose interval, 40 ms, a frame meets exactly.
AxisRates == {DefaultRateHz, 25}

AxisConfigs ==
    { Props(0, rate, mode, dz, DefaultTriggerThreshold,
            DefaultTriggerEpsilon, onL, TRUE, TRUE, TRUE) :
        rate \in AxisRates,
        mode \in {JOYSTICK_EMIT_ALWAYS, JOYSTICK_EMIT_ON_CHANGE},
        dz \in Deadzones, onL \in BOOLEAN }

InitAxes ==
    /\ \E c \in AxisConfigs : Mount(c, 0, FALSE, FALSE)
    /\ ManagerMount(TRUE, Snapshot(NoPad))

PollAxes ==
    \E dt \in FramePeriods, l \in LeftReadings, r \in RightReadings :
        /\ now + dt <= MaxTime
        /\ Poll(Snapshot(Pad(<<l[1], l[2], r[1], r[2]>>, ZeroButtons)),
                now + dt)

NextAxes == PollAxes \/ PollAbsent

SpecAxes == InitAxes /\ [][NextAxes]_vars

-----------------------------------------------------------------------------
(* Specification of the emission rate: EmitAlways at the default rate, the *)
(* left stick held at a constant reading outside the deadzone, on a host   *)
(* whose frames come every 16 or 17 ms; the consumer counts the left-move  *)
(* callbacks.                                                              *)

RateFramePeriods == {16, 17}

HeldAxes == <<50, 0, 0, 0>>

RateConfig ==
    Props(0, DefaultRateHz, JOYSTICK_EMIT_ALWAYS, DefaultDeadzone,
          DefaultTriggerThreshold, DefaultTriggerEpsilon,
          TRUE, TRUE, TRUE, TRUE)

InitRate ==
    /\ Mount(RateConfig, 0, TRUE, FALSE)
    /\ ManagerMount(TRUE, Snapshot(NoPad))

PollRate ==
    \E dt \in RateFramePeriods :
        /\ now + dt <= RateWindow
        /\ Poll(Snapshot(Pad(HeldAxes, ZeroButtons)), now + dt)

NextRate == PollRate

SpecRate == InitRate /\ [][NextRate]_vars

-----------------------------------------------------------------------------
(* Specification of the left stick over a few frames: its X axis takes any *)
(* of the readings below in each frame, everything else rests, and the     *)
(* processed frames are recorded.                                          *)

ScenarioStickReadings == {0, 5, 50}

StickConfigs ==
    { Props(0, DefaultRateHz, mode, DefaultDeadzone,
            DefaultTriggerThreshold, DefaultTriggerEpsilon,
            TRUE, TRUE, TRUE, TRUE) :
        mode \in {JOYSTICK_EMIT_ON_CHANGE, JOYSTICK_EMIT_ALWAYS} }

InitStick ==
    /\ \E c \in StickConfigs : Mount(c, 0, FALSE, TRUE)
    /\ ManagerMount(TRUE, Snapshot(NoPad))

PollStick ==
    \E dt \in FramePeriods, x \in ScenarioStickReadings :
        /\ Len(trace.frames) < MaxFrames
        /\ Poll(Snapshot(Pad(<<x, 0, 0, 0>>, ZeroButtons)), now + dt)

NextStick == PollStick

SpecStick == InitStick /\ [][NextStick]_vars

-----------------------------------------------------------------------------
(* Specification of the registry: the host holds any of the device arrays  *)
(* below, notifies and ticks at any time, and the caller renders, asks for *)
(* the next available slot and marks slots at any time.                    *)

\* What a slot of the host's array can hold: nothing, a connected device,
\* and in slot 0 a device that reports connected = false.
SlotContents(i) ==
    { NoPad, Device(i, TRUE, ZeroAxes, ZeroButtons) }
      \cup (IF i = 0 THEN { Device(i, FALSE, ZeroAxes, ZeroButtons) } ELSE {})

RegistrySnapshots ==
    { [i \in {0, 1} |-> IF i = 0 THEN a ELSE b] :
        a \in SlotContents(0), b \in SlotContents(1) }

\* The slots the caller passes to markBusy.
BusySlots == {-1, 0, 1}

\* The sample component passes selectedId ?? -1 with nothing selected.
IdleConfig ==
    Props(-1, DefaultRateHz, JOYSTICK_EMIT_ON_CHANGE, DefaultDeadzone,
          DefaultTriggerThreshold, DefaultTriggerEpsilon,
          TRUE, TRUE, TRUE, TRUE)

InitRegistry ==
    /\ Mount(IdleConfig, 0, FALSE, FALSE)
    /\ \E gps \in RegistrySnapshots : ManagerMount(TRUE, gps)

NextRegistry ==
    \/ \E gps \in RegistrySnapshots : HostChange(gps)
    \/ OnGamepadEvent
    \/ IntervalTick
    \/ Render
    \/ CallNextAvailable
    \/ \E index \in BusySlots, busy \in BOOLEAN : CallMarkBusy(index, busy)

SpecRegistry == InitRegistry /\ [][NextRegistry]_vars

\* The interval keeps firing while it is set, and React renders after a
\* setGamepads.
SpecRegistryFair ==
    SpecRegistry /\ WF_vars(IntervalTick) /\ WF_vars(Render)

-----------------------------------------------------------------------------
(* Specification of the hook's lifecycle: two devices, the first with a    *)
(* button and a stick that move, while the component changes the props of  *)
(* the hook and unmounts at any time.                                      *)

LifecycleConfigs ==
    { Props(on[1], DefaultRateHz, on[2], DefaultDeadzone,
            DefaultTriggerThreshold, DefaultTriggerEpsilon,
            TRUE, TRUE, TRUE, TRUE) :
        on \in { <<0, JOYSTICK_EMIT_ON_CHANGE>>,
                 <<1, JOYSTICK_EMIT_ON_CHANGE>>,
                 <<0, JOYSTICK_EMIT_ALWAYS>> } }

\* The host's array: slot 0 with Face1 at v and left X at x, slot 1 at rest.
TwoPads(x, v) ==
    [ i \in {0, 1} |->
        IF i = 0 THEN Device(i, TRUE, <<x, 0, 0, 0>>, Buttons(v, 0, 0))
        ELSE Device(i, TRUE, ZeroAxes, ZeroButtons) ]

InitLifecycle ==
    /\ \E c \in LifecycleConfigs : Mount(c, 0, FALSE, FALSE)
    /\ ManagerMount(TRUE, TwoPads(0, 0))

PollLifecycle ==
    \E dt \in FramePeriods, x \in {0, 50}, v \in {0, 30} :
        /\ now + dt <= MaxTime
        /\ Poll(TwoPads(x, v), now + dt)

ReconfigureLifecycle ==
    \E c \in LifecycleConfigs :
        /\ Len(pending) < MaxLoops
        /\ Reconfigure(c)

NextLifecycle == PollLifecycle \/ ReconfigureLifecycle \/ Unmount

SpecLifecycle == InitLifecycle /\ [][NextLifecycle]_vars

-----------------------------------------------------------------------------
(* Specification of a device that comes and goes: the hook is given the    *)
(* index -1, 0 or 1, and in each frame the host's array is empty, holds an *)
(* empty slot 0, or holds in slot 0 a device whose Face1 and left X move.  *)

AbsentConfigs ==
    { Props(id, DefaultRateHz, JOYSTICK_EMIT_ON_CHANGE, DefaultDeadzone,
            DefaultTriggerThreshold, DefaultTriggerEpsilon,
            TRUE, TRUE, TRUE, TRUE) : id \in {-1, 0, 1} }

AbsentSnapshots ==
    { << >>, Snapshot(NoPad) }
      \cup { Snapshot(Device(0, TRUE, <<x, 0, 0, 0>>, Buttons(v, 0, 0))) :
               x \in {0, 50}, v \in {0, 30} }

InitAbsent ==
    /\ \E c \in AbsentConfigs : Mount(c, 0, FALSE, FALSE)
    /\ ManagerMount(TRUE, Snapshot(NoPad))

PollComeAndGo ==
    \E dt \in FramePeriods, gps \in AbsentSnapshots :
        /\ now + dt <= MaxTime
        /\ Poll(gps, now + dt)

NextAbsent == PollComeAndGo

SpecAbsent == InitAbsent /\ [][NextAbsent]_vars

-----------------------------------------------------------------------------
(* Specification of a host with or without navigator.getGamepads: devices  *)
(* come and go, the registry refreshes and renders, the caller asks for    *)
(* the next available slot, and the hook polls index 0.                    *)

CapabilityConfig ==
    Props(0, DefaultRateHz, JOYSTICK_EMIT_ON_CHANGE, DefaultDeadzone,
          DefaultTriggerThreshold, DefaultTriggerEpsilon,
          TRUE, TRUE, TRUE, TRUE)

\* Device arrays with and without empty slots.
CapabilitySnapshots ==
    { [i \in {0, 1} |-> IF i = 0 THEN a ELSE b] :
        a \in { NoPad, Device(0, TRUE, <<50, 0, 0, 0>>, Buttons(30, 0, 0)) },
        b \in { NoPad, Device(1, TRUE, ZeroAxes, ZeroButtons) } }

InitCapability ==
    /\ Mount(CapabilityConfig, 0, FALSE, FALSE)
    /\ \E has \in BOOLEAN, gps \in CapabilitySnapshots : ManagerMount(has, gps)

PollHost ==
    \E dt \in FramePeriods :
        /\ now + dt <= MaxTime
        /\ Poll(pads, now + dt)

NextCapability ==
    \/ \E gps \in CapabilitySnapshots : HostChange(gps)
    \/ IntervalTick
    \/ Render
    \/ CallNextAvailable
    \/ PollHost

SpecCapability == InitCapability /\ [][NextCapability]_vars

-----------------------------------------------------------------------------
(* Specification of the registry's teardown: the registry of the           *)
(* specification above, whose component unmounts at any time.              *)

NextTeardown == NextRegistry \/ ManagerUnmount

SpecTeardown == InitRegistry /\ [][NextTeardown]_vars

-----------------------------------------------------------------------------
(* Specification of whole frames: both sticks, a button and the triggers   *)
(* (the two together) move in any frame, under either emit mode, with      *)
(* every callback.                                                         *)

FrameConfigs ==
    { Props(0, DefaultRateHz, mode, DefaultDeadzone,
            DefaultTriggerThreshold, DefaultTriggerEpsilon,
            TRUE, TRUE, TRUE, TRUE) :
        mode \in {JOYSTICK_EMIT_ON_CHANGE, JOYSTICK_EMIT_ALWAYS} }

InitFrames ==
    /\ \E c \in FrameConfigs : Mount(c, 0, FALSE, FALSE)
    /\ ManagerMount(TRUE, Snapshot(NoPad))

PollFrames ==
    \E dt \in FramePeriods, lx \in {0, 50}, rx \in {0, 50},
       v0 \in {0, 30}, v6 \in {0, 30} :
        /\ now + dt <= MaxTime
        /\ Poll(Snapshot(Pad(<<lx, 0, rx, 0>>, Buttons(v0, v6, v6))), now + dt)

NextFrames == PollFrames

SpecFrames == InitFrames /\ [][NextFrames]_vars

-----------------------------------------------------------------------------
(* Specification of the last-emit time: a device whose left stick moves    *)
(* and that is absent in some frames, under either emit mode, with and     *)
(* without the move callbacks, while the props change at any time.         *)

EmitTimeConfigs ==
    { Props(0, DefaultRateHz, on[1], DefaultDeadzone,
            DefaultTriggerThreshold, DefaultTriggerEpsilon,
            on[2], on[2], TRUE, TRUE) :
        on \in {JOYSTICK_EMIT_ON_CHANGE, JOYSTICK_EMIT_ALWAYS} \X BOOLEAN }

EmitTimeSnapshots ==
    { Snapshot(NoPad) }
      \cup { Snapshot(Pad(<<x, 0, 0, 0>>, ZeroButtons)) : x \in {0, 50} }

InitEmitTime ==
    /\ \E c \in EmitTimeConfigs : Mount(c, 0, FALSE, FALSE)
    /\ ManagerMount(TRUE, Snapshot(NoPad))

PollEmitTime ==
    \E dt \in FramePeriods, gps \in EmitTimeSnapshots :
        /\ now + dt <= MaxTime
        /\ Poll(gps, now + dt)

ReconfigureEmitTime ==
    \E c \in EmitTimeConfigs :
        /\ Len(pending) < MaxLoops
        /\ Reconfigure(c)

NextEmitTimes == PollEmitTime \/ ReconfigureEmitTime

SpecEmitTime == InitEmitTime /\ [][NextEmitTimes]_vars

-----------------------------------------------------------------------------
(* Specification of a drifting trigger: the left trigger takes any of the  *)
(* readings below in each frame, a hundredth apart or far off; the rest    *)
(* of the device rests.                                                    *)

DriftReadings == {0, 1, 2, 3, 30}

DriftConfig ==
    Props(0, DefaultRateHz, JOYSTICK_EMIT_ON_CHANGE, DefaultDeadzone,
          DefaultTriggerThreshold, DefaultTriggerEpsilon,
          TRUE, TRUE, TRUE, TRUE)

InitDrift ==
    /\ Mount(DriftConfig, 0, FALSE, FALSE)
    /\ ManagerMount(TRUE, Snapshot(NoPad))

PollDrift ==
    \E dt \in FramePeriods, v \in DriftReadings :
        /\ now + dt <= MaxTime
        /\ Poll(Snapshot(Pad(ZeroAxes, Buttons(0, v, 0))), now + dt)

NextDrift == PollDrift

SpecDrift == InitDrift /\ [][NextDrift]_vars

-----------------------------------------------------------------------------
(* Reading a frame: what the properties below speak about *)

\* Positions in cs of the calls of callback cb for channel name.
ButtonCallsAt(cs, cb, name) ==
    { k \in 1..Len(cs) : cs[k].cb = cb /\ cs[k].name = name }

\* Positions in cs of the binary calls (name, pressed).
BinaryAt(cs, name, pressed) ==
    { k \in ButtonCallsAt(cs, "onButtonBinary", name) : cs[k].pressed = pressed }

\* Positions in cs of the analog calls (name, value).
AnalogAt(cs, name, value) ==
    { k \in ButtonCallsAt(cs, "onButtonAnalog", name) : cs[k].value = value }

\* The boolean last delivered for a channel, FALSE when none was.
LastBinary(s, name) ==
    IF name \in DOMAIN s.binary THEN s.binary[name] ELSE FALSE

\* The raw indices of the buttons of a device record.
ButtonIndices(gp) == 0..(Len(gp.buttons) - 1)

\* The value remembered for a raw index, 0 when none is.
Remembered(prev, i) ==
    IF ButtonName(i) \in DOMAIN prev THEN prev[ButtonName(i)] ELSE 0

-----------------------------------------------------------------------------
(* Button channels *)

\* C1: in every processed frame, rate-eligible or not, a channel gets the
\* binary event (name, TRUE) exactly when its remembered value was <= the
\* threshold and its raw value is > the threshold, (name, FALSE) exactly when
\* the remembered value was > the threshold and the raw value is <= it, and at
\* most one binary event; the boolean last delivered for the channel (FALSE
\* when none) then equals (raw value > threshold).
C1_BinaryEdges ==
    [][ (frame'.processed /\ cfg.onButtonBinary) =>
          \A i \in ButtonIndices(frame'.gp) :
            LET name == ButtonName(i)
                cur  == frame'.gp.buttons[i + 1]
                prev == Remembered(prevButtons, i)
                thr  == cfg.triggerThreshold
            IN  /\ (BinaryAt(calls', name, TRUE) # {})
                      <=> (prev <= thr /\ cur > thr)
                /\ (BinaryAt(calls', name, FALSE) # {})
                      <=> (prev > thr /\ cur <= thr)
                /\ Cardinality(ButtonCallsAt(calls', "onButtonBinary", name)) <= 1
                /\ LastBinary(seen', name) = (cur > thr)
      ]_vars

\* A release edge delivered in a frame that is not rate-eligible.
C1_Witness ==
    /\ frame.processed /\ ~frame.shouldEmit
    /\ BinaryAt(calls, "Face1", FALSE) # {}
    /\ frame.gp.buttons[1] <= cfg.triggerThreshold

\* C2: the binary events of a channel alternate, starting with TRUE: every
\* binary event carries the opposite of the boolean last delivered for the
\* channel (FALSE when none), at most one is delivered per frame; and after
\* a (name, TRUE) event, (name, FALSE) is delivered in a processed frame
\* exactly when the raw value of the channel is <= the threshold in it.
C2_Alternation ==
    [][ (frame'.processed /\ cfg.onButtonBinary) =>
          \A i \in ButtonIndices(frame'.gp) :
            LET name == ButtonName(i)
                cur  == frame'.gp.buttons[i + 1]
                at   == ButtonCallsAt(calls', "onButtonBinary", name)
            IN  /\ Cardinality(at) <= 1
                /\ \A k \in at : calls'[k].pressed = ~LastBinary(seen, name)
                /\ LastBinary(seen, name) =>
                      ((BinaryAt(calls', name, FALSE) # {})
                          <=> cur <= cfg.triggerThreshold)
                /\ ~LastBinary(seen, name) => BinaryAt(calls', name, FALSE) = {}
      ]_vars

\* A channel held over the threshold in a processed frame after its press
\* was delivered: no second (name, TRUE).
C2_Witness ==
    /\ frame.processed
    /\ LastBinary(seen, "LeftTrigger")
    /\ ButtonCallsAt(calls, "onButtonBinary", "LeftTrigger") = {}
    /\ frame.gp.buttons[TriggerIndexA + 1] > cfg.triggerThreshold

\* C3: in every processed frame an analog event (name, raw value) is
\* delivered for a channel exactly when the channel is raw index 6 or 7 and
\* |raw value - remembered value| > triggerEpsilon; no other analog event is
\* delivered, whatever binary event the frame delivers for the channel.
C3_AnalogEvents ==
    [][ (frame'.processed /\ cfg.onButtonAnalog) =>
          \A i \in ButtonIndices(frame'.gp) :
            LET name  == ButtonName(i)
                cur   == frame'.gp.buttons[i + 1]
                prev  == Remembered(prevButtons, i)
                delta == IF cur >= prev THEN cur - prev ELSE prev - cur
                at    == ButtonCallsAt(calls', "onButtonAnalog", name)
            IN  /\ (at # {}) <=> (i \in {6, 7} /\ delta > cfg.triggerEpsilon)
                /\ Cardinality(at) <= 1
                /\ \A k \in at : calls'[k].value = cur
      ]_vars

\* A trigger frame with a binary edge and an analog event together.
C3_Witness ==
    /\ frame.processed
    /\ BinaryAt(calls, "LeftTrigger", TRUE) # {}
    /\ AnalogAt(calls, "LeftTrigger", frame.gp.buttons[TriggerIndexA + 1]) # {}

-----------------------------------------------------------------------------
(* Scenario of one trigger *)

\* The readings of the left trigger over the recorded frames.
TriggerTrace ==
    [k \in 1..Len(trace.frames) |-> trace.frames[k].gp.buttons[TriggerIndexA + 1]]

\* The calls of callback cb for channel name among cs, in order.
ButtonCallsOf(cs, cb, name) ==
    LET Is(call) == call.cb = cb /\ call.name = name
    IN  SelectSeq(cs, Is)

\* The binary events of the left trigger per recorded frame, as the
\* sequence of booleans each frame delivered.
BinaryTrace ==
    [k \in 1..Len(trace.frames) |->
        LET cs == ButtonCallsOf(trace.frames[k].calls, "onButtonBinary",
                                "LeftTrigger")
        IN  [j \in 1..Len(cs) |-> cs[j].pressed]]

\* The analog events of the left trigger per recorded frame, as the
\* sequence of values each frame delivered.
AnalogTrace ==
    [k \in 1..Len(trace.frames) |->
        LET cs == ButtonCallsOf(trace.frames[k].calls, "onButtonAnalog",
                                "LeftTrigger")
        IN  [j \in 1..Len(cs) |-> cs[j].value]]

ScenarioC4 == <<0, 5, 15, 30, 0>>

\* C4 (as amended): with threshold 0.1 and epsilon 0.01, the trigger readings
\* 0.0, 0.05, 0.15, 0.3, 0.0 over the first five processed frames give the
\* binary events TRUE in the 0.15 frame and FALSE in the last frame, and
\* analog events in the 0.05, 0.15, 0.3 and last frames, none in the first.
C4_ScenarioAmended ==
    TriggerTrace = ScenarioC4 =>
        /\ BinaryTrace = << <<>>, <<>>, <<TRUE>>, <<>>, <<FALSE>> >>
        /\ AnalogTrace = << <<>>, <<5>>, <<15>>, <<30>>, <<0>> >>

\* The five frames of the scenario have been processed.
C4_Witness ==
    /\ TriggerTrace = ScenarioC4
    /\ cfg.triggerThreshold = 10 /\ cfg.triggerEpsilon = 1

\* C4 (as claimed): the same scenario, with no analog event in the 0.05
\* frame.
C4_ScenarioAsClaimed ==
    TriggerTrace = ScenarioC4 =>
        /\ BinaryTrace = << <<>>, <<>>, <<TRUE>>, <<>>, <<FALSE>> >>
        /\ AnalogTrace = << <<>>, <<>>, <<15>>, <<30>>, <<0>> >>

-----------------------------------------------------------------------------
(* Sticks *)

\* The expected deadzone filter, X and Y.
FilterX(v, d) == IF v > d \/ v < -d THEN v ELSE 0
FilterY(v, d) == IF v > d \/ v < -d THEN 0 - v ELSE 0

\* The expected filtered pair of a side for the device record gp.
Filtered(gp, side, d) ==
    IF side = "left"
    THEN [dx |-> FilterX(gp.axes[1], d), dy |-> FilterY(gp.axes[2], d)]
    ELSE [dx |-> FilterX(gp.axes[3], d), dy |-> FilterY(gp.axes[4], d)]

\* Positions in cs of the move calls of a side.
MoveCallsAt(cs, side) ==
    { k \in 1..Len(cs) :
        cs[k].cb = IF side = "left" THEN "onLeftJoystickMove"
                   ELSE "onRightJoystickMove" }

\* Whether the move callback of a side is supplied.
Supplied(side) ==
    IF side = "left" THEN cfg.onLeftJoystickMove ELSE cfg.onRightJoystickMove

SideSet == {"left", "right"}

\* The expected rate eligibility of a frame at time t.
Eligible(t, last, rateHz) == 1000 <= (t - last) * rateHz

\* C5: after every processed frame the filtered value of each side is 0 in
\* X when |raw X| <= deadzone and raw X otherwise, 0 in Y when
\* |raw Y| <= deadzone and -raw Y otherwise, for axes 0,1 (left) and 2,3
\* (right), with no other clamping; every move callback of the frame carries
\* that pair.
C5_Deadzone ==
    frame.processed =>
        \A side \in SideSet :
            /\ prevAxes[side] = Filtered(frame.gp, side, cfg.deadzone)
            /\ \A k \in MoveCallsAt(calls, side) :
                  /\ calls[k].dx = Filtered(frame.gp, side, cfg.deadzone).dx
                  /\ calls[k].dy = Filtered(frame.gp, side, cfg.deadzone).dy

\* A frame whose left readings are exactly at the deadzone (filtered to 0)
\* and whose right readings are outside it (X kept, Y negated).
C5_Witness ==
    /\ frame.processed
    /\ cfg.deadzone = 10
    /\ frame.gp.axes = <<10, -10, 50, 11>>
    /\ prevAxes.left = [dx |-> 0, dy |-> 0]
    /\ prevAxes.right = [dx |-> 50, dy |-> -11]

\* C6: under EmitOnChange with the move callback of a side supplied, a
\* processed frame whose filtered pair differs from the pair last delivered
\* for the side (initially (0,0)) invokes the callback; after the frame the
\* pair last delivered equals the filtered pair of the frame, and the
\* remembered previous pair equals the pair last delivered.
C6_OnChangeDelivers ==
    [][ (frame'.processed /\ cfg.joystickEmitMode = JOYSTICK_EMIT_ON_CHANGE) =>
          \A side \in SideSet :
            Supplied(side) =>
              LET f == Filtered(frame'.gp, side, cfg.deadzone)
              IN  /\ (f # seen[side]) => MoveCallsAt(calls', side) # {}
                  /\ seen'[side] = f
                  /\ prevAxes'[side] = seen'[side]
      ]_vars

\* A changed non-neutral pair delivered in a frame that is not
\* rate-eligible.
C6_Witness ==
    /\ frame.processed /\ ~frame.shouldEmit
    /\ cfg.joystickEmitMode = JOYSTICK_EMIT_ON_CHANGE
    /\ cfg.onLeftJoystickMove
    /\ MoveCallsAt(calls, "left") # {}
    /\ seen.left = [dx |-> -150, dy |-> -50]

\* C7: under EmitOnChange with the callback supplied, a processed frame
\* whose filtered pair is (0,0) after a remembered non-neutral pair invokes
\* the callback exactly once, with (0,0), rate-eligible or not; a processed
\* frame whose filtered pair is (0,0) after a remembered neutral pair
\* invokes no callback for the side.
C7_NeutralRelease ==
    [][ (frame'.processed /\ cfg.joystickEmitMode = JOYSTICK_EMIT_ON_CHANGE) =>
          \A side \in SideSet :
            (Supplied(side)
               /\ Filtered(frame'.gp, side, cfg.deadzone) = [dx |-> 0, dy |-> 0]) =>
              LET at == MoveCallsAt(calls', side)
              IN  IF prevAxes[side] # [dx |-> 0, dy |-> 0]
                  THEN /\ Cardinality(at) = 1
                       /\ \A k \in at : calls'[k].dx = 0 /\ calls'[k].dy = 0
                  ELSE at = {}
      ]_vars

\* The release (0,0) delivered in a frame that is not rate-eligible.
C7_Witness ==
    /\ frame.processed /\ ~frame.shouldEmit
    /\ cfg.joystickEmitMode = JOYSTICK_EMIT_ON_CHANGE
    /\ \E k \in MoveCallsAt(calls, "left") : calls[k].dx = 0 /\ calls[k].dy = 0
    /\ frame.gp.axes[1] = 10

\* C8: under EmitOnChange with the callback supplied, a processed frame
\* whose filtered pair is non-neutral and equal to the remembered pair
\* invokes the callback exactly when (now - lastEmitTime) >= 1000 / rateHz,
\* and then with that pair.
C8_HoldReporting ==
    [][ (frame'.processed /\ cfg.joystickEmitMode = JOYSTICK_EMIT_ON_CHANGE) =>
          \A side \in SideSet :
            LET f == Filtered(frame'.gp, side, cfg.deadzone)
            IN  (Supplied(side) /\ f # [dx |-> 0, dy |-> 0] /\ f = prevAxes[side]) =>
                  /\ (MoveCallsAt(calls', side) # {})
                        <=> Eligible(now', lastEmitTime, cfg.joystickRateHz)
                  /\ frame'.shouldEmit
                        <=> Eligible(now', lastEmitTime, cfg.joystickRateHz)
                  /\ Cardinality(MoveCallsAt(calls', side)) <= 1
                  /\ \A k \in MoveCallsAt(calls', side) :
                        calls'[k].dx = f.dx /\ calls'[k].dy = f.dy
      ]_vars

\* A held, unchanged stick in a frame that is not rate-eligible: no
\* callback (under EmitOnChange a non-neutral pair without a callback is an
\* unchanged pair).
C8_Witness ==
    /\ frame.processed /\ ~frame.shouldEmit
    /\ cfg.joystickEmitMode = JOYSTICK_EMIT_ON_CHANGE
    /\ cfg.onLeftJoystickMove
    /\ prevAxes.left # [dx |-> 0, dy |-> 0]
    /\ MoveCallsAt(calls, "left") = {}
    /\ seen.left = prevAxes.left

\* C9: under EmitAlways with the callback of a side supplied, a processed
\* frame invokes it, once and with the filtered pair, exactly when the frame
\* is rate-eligible, changed or not, neutral or not; an invocation comes at
\* least 1000 / rateHz ms after the previous invocation for the side.
C9_EmitAlways ==
    [][ (frame'.processed /\ cfg.joystickEmitMode = JOYSTICK_EMIT_ALWAYS) =>
          \A side \in SideSet :
            Supplied(side) =>
              LET f  == Filtered(frame'.gp, side, cfg.deadzone)
                  at == MoveCallsAt(calls', side)
              IN  /\ (at # {}) <=> Eligible(now', lastEmitTime, cfg.joystickRateHz)
                  /\ Cardinality(at) <= 1
                  /\ \A k \in at : calls'[k].dx = f.dx /\ calls'[k].dy = f.dy
                  /\ (at # {} /\ seen.moveAt[side] >= 0) =>
                        Eligible(now', seen.moveAt[side], cfg.joystickRateHz)
      ]_vars

\* A second rate-eligible frame of a stick at rest: the neutral pair is
\* delivered again.
C9_Witness ==
    /\ frame.processed /\ frame.shouldEmit
    /\ cfg.joystickEmitMode = JOYSTICK_EMIT_ALWAYS
    /\ now = 80
    /\ \E k \in MoveCallsAt(calls, "left") : calls[k].dx = 0 /\ calls[k].dy = 0
    /\ prevAxes.right # [dx |-> 0, dy |-> 0]

-----------------------------------------------------------------------------
(* Emission rate *)

\* C10: under EmitAlways with rate R and a constant reading outside the
\* deadzone, on a host whose frame period is shorter than 1000 / R, the
\* number of left-move callbacks in the T ms since mount is T * R / 1000 to
\* within two invocations (more than the one frame's worth the claim
\* allows, which is under one invocation here).
C10_RateAsClaimed ==
    (seen.metered /\ cfg.joystickEmitMode = JOYSTICK_EMIT_ALWAYS) =>
        /\ (seen.J1 + 2) * 1000 >= now * cfg.joystickRateHz
        /\ seen.J1 * 1000 <= now * cfg.joystickRateHz + 2 * 1000

-----------------------------------------------------------------------------
(* Scenario of the left stick *)

\* The readings of the left X axis over the recorded frames.
LeftXTrace ==
    [k \in 1..Len(trace.frames) |-> trace.frames[k].gp.axes[1]]

\* The calls of the left-move callback among cs, in order.
LeftMovesOf(cs) ==
    LET Is(call) == call.cb = "onLeftJoystickMove"
    IN  SelectSeq(cs, Is)

\* The dx values the left-move callback received over the frames fs, in
\* order.
RECURSIVE DxSeen(_)
DxSeen(fs) ==
    IF fs = << >> THEN << >>
    ELSE LET cs == LeftMovesOf(Head(fs).calls)
         IN  [j \in 1..Len(cs) |-> cs[j].dx] \o DxSeen(Tail(fs))

ScenarioC11 == <<0, 50, 5, 0>>

\* C11 (as amended): with deadzone 0.1 and the default EmitOnChange mode,
\* the left X readings 0.0, 0.5, 0.05, 0.0 over the first four processed
\* frames (Y at 0) make the caller observe the dx sequence 0.5, 0: the
\* release is delivered once, in the 0.05 frame, and the last frame delivers
\* nothing.
C11_ScenarioAmended ==
    (LeftXTrace = ScenarioC11
       /\ cfg.joystickEmitMode = JOYSTICK_EMIT_ON_CHANGE) =>
        /\ DxSeen(trace.frames) = <<50, 0>>
        /\ LeftMovesOf(trace.frames[3].calls) # << >>
        /\ LeftMovesOf(trace.frames[4].calls) = << >>

\* The four frames of the scenario have been processed under EmitOnChange.
C11_Witness ==
    /\ LeftXTrace = ScenarioC11
    /\ cfg.joystickEmitMode = JOYSTICK_EMIT_ON_CHANGE
    /\ cfg.deadzone = 10

\* C11 (as claimed): the same scenario, with the dx sequence 0.5, 0, 0.
C11_ScenarioAsClaimed ==
    (LeftXTrace = ScenarioC11
       /\ cfg.joystickEmitMode = JOYSTICK_EMIT_ON_CHANGE) =>
        DxSeen(trace.frames) = <<50, 0, 0>>

-----------------------------------------------------------------------------
(* The registry *)

\* The positions of the descriptors of list that are connected and not busy.
Free(list) == { k \in 1..Len(list) : list[k].connected /\ ~list[k].busy }

\* The slots listed in list.
Listed(list) == { list[k].index : k \in 1..Len(list) }

\* C12: nextAvailable() returns the slot of the first descriptor of the
\* published list that is connected and not busy, and null when there is
\* none; the descriptor of a returned slot is never busy or unconnected,
\* slot 0 is returned as 0, and the call changes nothing of the registry.
C12_NextAvailable ==
    [][ op'.name = "nextAvailable" =>
          /\ IF Free(view) = {}
             THEN op'.result = Null
             ELSE /\ op'.result # Null
                  /\ \E k \in Free(view) :
                        /\ op'.result = << view[k].index >>
                        /\ \A j \in Free(view) : k <= j
          /\ \A k \in 1..Len(view) :
                (op'.result = << view[k].index >>) =>
                    (view[k].connected /\ ~view[k].busy)
          /\ UNCHANGED <<api, pads, gamepads, view>>
      ]_vars

\* nextAvailable() has returned slot 0, past nothing: the first descriptor
\* is free and its slot is 0.
C12_Witness ==
    /\ op.name = "nextAvailable"
    /\ op.result = << 0 >>
    /\ Len(view) = 2
    /\ Free(view) = {1, 2}

\* C13 (as claimed): after markBusy(slot, TRUE) on a listed slot, a
\* nextAvailable() that follows immediately on the same handle does not
\* return that slot.
C13_ImmediateSkipAsClaimed ==
    [][ ( /\ op.name = "markBusy" /\ op.busy
          /\ op.index \in Listed(view)
          /\ op'.name = "nextAvailable" ) =>
            op'.result # << op.index >>
      ]_vars

\* The descriptor of slot i in list is busy.
BusyIn(list, i) == \E k \in 1..Len(list) : list[k].index = i /\ list[k].busy

\* The steps that refresh the registry.
RefreshOps == {"handle", "interval"}

\* C14 (as claimed): a refresh (timer tick or connect / disconnect
\* notification) carries the busy flag forward: a slot that is busy in the
\* published list and in the state, and that the host's array still holds,
\* is busy in the list the refresh publishes.
C14_BusyCarriedAsClaimed ==
    [][ op'.name \in RefreshOps =>
          \A i \in Listed(view) :
            ( /\ BusyIn(view, i) /\ BusyIn(gamepads, i)
              /\ ~Absent(PadAt(GetGamepads(api, pads), i)) ) =>
                BusyIn(gamepads', i)
      ]_vars

\* C15: markBusy(slot, b) sets busy to b on the descriptor of that slot and
\* leaves the other descriptors, the other fields of that descriptor, and
\* the order and the length of the list as they were; with no descriptor of
\* that slot (a negative slot included) the list is unchanged.
C15_MarkBusy ==
    [][ op'.name = "markBusy" =>
          /\ Len(gamepads') = Len(gamepads)
          /\ \A k \in 1..Len(gamepads) :
                /\ \A f \in DOMAIN gamepads[k] \ {"busy"} :
                      gamepads'[k][f] = gamepads[k][f]
                /\ gamepads'[k].busy =
                      IF gamepads[k].index = op'.index THEN op'.busy
                      ELSE gamepads[k].busy
          /\ (op'.index \notin Listed(gamepads)) => gamepads' = gamepads
          /\ view' = view
      ]_vars

\* markBusy(1, TRUE) has marked the second of two descriptors and left the
\* first one free.
C15_Witness ==
    /\ op.name = "markBusy" /\ op.index = 1 /\ op.busy
    /\ Len(gamepads) = 2
    /\ gamepads[2].index = 1 /\ gamepads[2].busy
    /\ gamepads[1].index = 0 /\ ~gamepads[1].busy

-----------------------------------------------------------------------------
(* The lifecycle of the loop *)

\* C16 (as claimed): once the component has unmounted, no frame is requested
\* for the loop and no run of poll invokes a callback.
C16_UnmountStopsAsClaimed ==
    [][ ~mounted' =>
          /\ pending' = << >>
          /\ (op'.name = "poll" => calls' = << >>)
      ]_vars

\* C17 (as claimed): whatever the reconfigurations, at most one poll closure
\* has a frame requested, so the refs have one reader and writer.
C17_SingleLoopAsClaimed == Len(pending) <= 1

\* C18 (as claimed): after the effect has run again for changed props, the
\* remembered axes are (0,0) on both sides, the non-neutral markers are
\* FALSE and no button value other than 0 is remembered.
C18_CleanSlateAsClaimed ==
    [][ op'.name = "effect" =>
          /\ \A side \in {"left", "right"} :
                /\ prevAxes'[side] = [dx |-> 0, dy |-> 0]
                /\ ~lastNonNeutral'[side]
          /\ \A name \in DOMAIN prevButtons' : prevButtons'[name] = 0
      ]_vars

-----------------------------------------------------------------------------
(* Frames without the device *)

\* The array gps has no device at index id: the index is outside the array
\* (negative or beyond its end) or the slot is empty.
NoDeviceAt(gps, id) == id \notin DOMAIN gps \/ gps[id] = NoPad

\* C19: a frame in which the host's array has no device at the configured
\* index (empty slot, index beyond the array, or a negative index) invokes
\* no callback, leaves the remembered axes, non-neutral markers, button
\* values and last-emit time as they were, and requests the next frame; in
\* the frame in which the device is back, a binary event is delivered
\* exactly for the channels whose pressed state differs from the one last
\* delivered before the absence, and the stick's release exactly when the
\* pair last delivered before the absence was not (0,0).
C19_AbsentFrame ==
    [][ op'.name = "poll" =>
          IF NoDeviceAt(pads', cfg.id)
          THEN /\ ~frame'.processed
               /\ calls' = << >>
               /\ seen' = seen
               /\ UNCHANGED <<prevAxes, lastNonNeutral, prevButtons,
                              lastEmitTime>>
               /\ pending' = << cfg >>
          ELSE /\ frame'.processed
               /\ (op.name = "poll" /\ ~frame.processed) =>
                    /\ \A i \in ButtonIndices(frame'.gp) :
                          (ButtonCallsAt(calls', "onButtonBinary", ButtonName(i)) # {})
                            <=> (LastBinary(seen, ButtonName(i))
                                   # (frame'.gp.buttons[i + 1] > cfg.triggerThreshold))
                    /\ Filtered(frame'.gp, "left", cfg.deadzone) = [dx |-> 0, dy |-> 0] =>
                          ((MoveCallsAt(calls', "left") # {})
                             <=> (seen.left # [dx |-> 0, dy |-> 0]))
      ]_vars

\* A frame without the device, after the button was pressed and the stick
\* was moved: both are still remembered.
C19_Witness ==
    /\ op.name = "poll" /\ ~frame.processed
    /\ NoDeviceAt(pads, cfg.id)
    /\ cfg.id = 0
    /\ Remembered(prevButtons, 0) = 30
    /\ lastNonNeutral.left
    /\ prevAxes.left.dx = 50

-----------------------------------------------------------------------------
(* A host without navigator.getGamepads *)

\* The slots of the array gps that hold a device.
SlotsHeld(gps) == { i \in DOMAIN gps : gps[i] # NoPad }

\* C20: without navigator.getGamepads the registry's list is empty after
\* the refresh at mount and after every later refresh, nextAvailable()
\* returns null, and the hook's loop invokes no callback and keeps its frame
\* requested; with it, a refresh lists exactly the slots that hold a device,
\* in the order of the array, skipping the empty ones.
C20_NoCapability ==
    /\ ~api =>
          /\ gamepads = << >>
          /\ view = << >>
          /\ (op.name = "nextAvailable" => op.result = Null)
          /\ ~frame.processed
          /\ calls = << >>
          /\ seen = SeenInit(FALSE)
          /\ pending = << cfg >>
    /\ (api /\ op.name \in RefreshOps) =>
          /\ Len(gamepads) = Cardinality(SlotsHeld(pads))
          /\ \A k \in 1..Len(gamepads) :
                /\ gamepads[k].index \in SlotsHeld(pads)
                /\ \A j \in 1..(k - 1) : gamepads[j].index < gamepads[k].index

\* Without navigator.getGamepads, the loop has run and the registry has
\* refreshed while a device with a pressed button and a moved stick sits in
\* slot 0.
C20_Witness ==
    /\ ~api
    /\ op.name \in RefreshOps
    /\ now > 0
    /\ pads[0] # NoPad
    /\ pads[0].buttons[1] = 30

-----------------------------------------------------------------------------
(* The registry's refreshes *)

\* C21: a device the host's array holds without any connect notification is
\* listed: by the refresh at mount when it is there then, by the next tick
\* of the interval otherwise; and, the interval firing and React rendering,
\* a device that stays in the array is eventually in the published list.
C21_TimerCatchesDevices ==
    /\ [](op.name \in {"mount", "interval"} =>
            \A i \in SlotsHeld(GetGamepads(api, pads)) : i \in Listed(gamepads))
    /\ \A i \in {0, 1} :
          (i \in SlotsHeld(pads))
             ~> (i \in Listed(view) \/ i \notin SlotsHeld(pads))

\* The interval has fired with a device in slot 1 that the list rendered
\* before did not have: the new list has it.
C21_Witness ==
    /\ op.name = "interval"
    /\ Listed(view) = {0}
    /\ 1 \in SlotsHeld(pads)
    /\ 1 \in Listed(gamepads)

\* C22: the teardown of the registry removes its listeners and clears its
\* interval; from then on no step is a refresh, and neither the state's
\* list nor the published list changes, whatever the host does.
C22_TeardownStops ==
    [][ /\ op'.name = "managerUnmount" =>
              (~manager'.listeners /\ ~manager'.interval)
        /\ ~manager.mounted =>
              /\ op'.name \notin RefreshOps
              /\ gamepads' = gamepads
              /\ view' = view
      ]_vars

\* After the teardown the host has got a device in slot 1 that the list does
\* not have.
C22_Witness ==
    /\ ~manager.mounted
    /\ op.name = "host"
    /\ 1 \in SlotsHeld(pads)
    /\ 1 \notin Listed(gamepads)

\* C23: after the refresh at mount and after every later refresh the list
\* has one descriptor per slot of the array that holds a device, in the
\* order of the array, with connected, id, index and mapping copied and the
\* numbers of axes and buttons counted from it; an empty slot has no
\* descriptor, and no two descriptors have the same slot.
C23_RefreshRebuilds ==
    (op.name \in RefreshOps \cup {"mount"}) =>
        LET gps  == GetGamepads(api, pads)
            held == SlotsHeld(gps)
        IN  /\ Len(gamepads) = Cardinality(held)
            /\ \A k \in 1..Len(gamepads) :
                  LET g == gamepads[k] IN
                  /\ g.index \in held
                  /\ k = Cardinality({ j \in held : j <= g.index })
                  /\ g.connected = gps[g.index].connected
                  /\ g.id = gps[g.index].id
                  /\ g.index = gps[g.index].index
                  /\ g.mapping = gps[g.index].mapping
                  /\ g.axes = Len(gps[g.index].axes)
                  /\ g.buttons = Len(gps[g.index].buttons)
            /\ \A j, k \in 1..Len(gamepads) :
                  j # k => gamepads[j].index # gamepads[k].index

\* A refresh with slot 0 empty and a device in slot 1, after a render that
\* listed slot 0: the new list has slot 1 only.
C23_Witness ==
    /\ op.name \in RefreshOps
    /\ pads[0] = NoPad /\ pads[1] # NoPad
    /\ 0 \in Listed(view)
    /\ Listed(gamepads) = {1}

-----------------------------------------------------------------------------
(* The order of the callbacks of a frame *)

\* The raw index of the channel called name.
IndexOf(name) == CHOOSE i \in 0..(NumButtons - 1) : ButtonName(i) = name

\* The place of a call in the claimed order: left move, right move, then
\* per raw index the binary event and the analog event.
Rank(call) ==
    CASE call.cb = "onLeftJoystickMove"  -> 0
      [] call.cb = "onRightJoystickMove" -> 1
      [] call.cb = "onButtonBinary"      -> 2 + 2 * IndexOf(call.name)
      [] call.cb = "onButtonAnalog"      -> 3 + 2 * IndexOf(call.name)

\* C24: the callbacks of one frame come in a fixed order: the left move
\* before the right move, both before every button event, the button
\* channels by increasing raw index, and for a trigger the binary edge
\* before the analog value; the consumer has received exactly these calls,
\* in this order, when the step of the frame ends.
C24_CallbackOrder ==
    [][ op'.name = "poll" =>
          /\ \A j, k \in 1..Len(calls') :
                j < k => Rank(calls'[j]) < Rank(calls'[k])
          /\ seen' = DeliverAll(seen, calls', 1, now')
      ]_vars

\* A frame that has invoked both move callbacks, the binary event of Face1,
\* and the binary and the analog event of both triggers.
C24_Witness ==
    /\ op.name = "poll" /\ frame.processed
    /\ Len(calls) = 7
    /\ calls[1].cb = "onLeftJoystickMove"
    /\ calls[2].cb = "onRightJoystickMove"
    /\ calls[3].cb = "onButtonBinary" /\ calls[3].name = "Face1"
    /\ calls[4].cb = "onButtonBinary" /\ calls[4].name = "LeftTrigger"
    /\ calls[5].cb = "onButtonAnalog" /\ calls[5].name = "LeftTrigger"
    /\ calls[6].cb = "onButtonBinary" /\ calls[6].name = "RightTrigger"
    /\ calls[7].cb = "onButtonAnalog" /\ calls[7].name = "RightTrigger"

-----------------------------------------------------------------------------
(* The last-emit time *)

\* C25: the last-emit time is the mount time at mount; a run of poll sets it
\* to the frame time exactly when the frame is processed and rate-eligible
\* for the props of the running closure, whether or not the frame invoked a
\* move callback, and leaves it as it was otherwise (a frame that is not
\* eligible, with or without a callback, and a frame without the device);
\* the effect that runs again sets it to the current time.
C25_LastEmitTime ==
    /\ (op.name = "mount" => lastEmitTime = now)
    /\ [][ /\ op'.name = "poll" =>
                lastEmitTime' =
                    IF frame'.processed
                         /\ Eligible(now', lastEmitTime,
                                     Head(pending).joystickRateHz)
                    THEN now' ELSE lastEmitTime
           /\ op'.name = "effect" => lastEmitTime' = now'
         ]_vars

\* A frame that was not rate-eligible has delivered a change of the left
\* stick and left the last-emit time at an earlier frame's time.
C25_Witness ==
    /\ op.name = "poll" /\ frame.processed /\ ~frame.shouldEmit
    /\ MoveCallsAt(calls, "left") # {}
    /\ lastEmitTime > 0 /\ lastEmitTime < now

-----------------------------------------------------------------------------
(* Callbacks after a change of the props *)

\* C26 (as claimed): after the props have changed, a run of poll that
\* invokes callbacks is a run of the closure of the current props: the
\* callbacks invoked are the current ones, never those of earlier props.
C26_CurrentCallbacksAsClaimed ==
    [][ (op'.name = "poll" /\ calls' # << >>) => Head(pending) = cfg ]_vars

-----------------------------------------------------------------------------
(* The analog value the caller holds *)

\* The analog value last delivered for a channel, 0 when none was.
LastAnalog(s, name) ==
    IF name \in DOMAIN s.analog THEN s.analog[name] ELSE 0

\* C27 (as claimed): with onButtonAnalog supplied, after every processed
\* frame the analog value last delivered for the left trigger (0 when none
\* was) is within triggerEpsilon of the frame's raw value.
C27_AnalogTracksAsClaimed ==
    (op.name = "poll" /\ frame.processed /\ cfg.onButtonAnalog) =>
        Abs(LastAnalog(seen, ButtonName(TriggerIndexA))
              - frame.gp.buttons[TriggerIndexA + 1]) <= cfg.triggerEpsilon

=============================================================================
